---- MODULE Spec2Model ----
(***************************************************************************)
(* A model of lossyqoi.c: the lossy QOI encoder (qoi_write_pixel and its   *)
(* helpers), the conversion driver convert_to_qoi and main.                *)
(*                                                                         *)
(* A pixel is a record [r, g, b, a] of bytes, the encoder a record         *)
(* [run, prev_px, index, lossiness]; the output file is the sequence of    *)
(* bytes written to it so far.                                             *)
(***************************************************************************)
EXTENDS Integers, Sequences, FiniteSets

VARIABLES
    pc,          \* where the program is: main, then the steps of convert_to_qoi
    argc,        \* number of command-line words (argv[0] included)
    argv3,       \* the integer atoi reads from argv[3] (0 when absent)
    lossiness,   \* main's local: the threshold handed to convert_to_qoi
    width,       \* convert_to_qoi locals set by stbi_load
    height,
    channels,
    data,        \* the pixel buffer, as far as the loop has read it (bytes)
    i,           \* loop counter of convert_to_qoi
    fopened,     \* TRUE once fopen(output_path, "wb") succeeded (file created)
    file,        \* bytes written to the output file, in order
    enc,         \* the qoi_encoder, or Uninit before qoi_encoder_init
    call,        \* the latest qoi_write_pixel call: encoder before, pixel, bytes written
    stderr,      \* messages printed to stderr
    stdout,      \* messages printed to stdout
    status       \* exit status of main, -1 while running

vars == <<pc, argc, argv3, lossiness, width, height, channels, data, i,
          fopened, file, enc, call, stderr, stdout, status>>

----------------------------------------------------------------------------
(* Bounds of the model *)

\* longest image (in pixels) whose pixels are chosen freely
MaxPixels == 3
\* largest lossiness given on the command line
MaxLossiness == 3

----------------------------------------------------------------------------
(* Opcode tags, lines 9-14 *)

QOI_OP_INDEX == 0
QOI_OP_DIFF == 64
QOI_OP_LUMA == 128
QOI_OP_RUN == 192
QOI_OP_RGB == 254
QOI_OP_RGBA == 255

\* sizeof(index)/sizeof(qoi_rgba), line 23
IndexSize == 64
\* the run length at which qoi_write_pixel emits a full run, line 59
RunCap == 62

----------------------------------------------------------------------------
(* C integer helpers *)

Abs(x) == IF x < 0 THEN -x ELSE x

\* (uint8_t)x for an int x (two's complement truncation)
U8(x) == x % 256

RECURSIVE BitOr(_, _)
\* a | b for non-negative ints
BitOr(a, b) ==
    IF a = 0 THEN b
    ELSE IF b = 0 THEN a
    ELSE (IF (a % 2) + (b % 2) > 0 THEN 1 ELSE 0) + 2 * BitOr(a \div 2, b \div 2)

\* x << n and x >> n for non-negative x
Shl(x, n) == x * (2 ^ n)
Shr(x, n) == x \div (2 ^ n)

----------------------------------------------------------------------------
(* Pixels and the encoder record *)

Px(r, g, b, a) == [r |-> r, g |-> g, b |-> b, a |-> a]

Uninit == [uninit |-> TRUE]
NoCall == [nocall |-> TRUE]

\* qoi_encoder_init: memset 0, prev_px.a = 255, lossiness stored
qoi_encoder_init(l) ==
    [run |-> 0,
     prev_px |-> Px(0, 0, 0, 255),
     index |-> [k \in 0 .. IndexSize - 1 |-> Px(0, 0, 0, 0)],
     lossiness |-> l]

\* qoi_color_hash
qoi_color_hash(px) == (px.r * 3 + px.g * 5 + px.b * 7 + px.a * 11) % IndexSize

\* faulty variant of qoi_px_near: the comparisons with the threshold reversed
qoi_px_near_reversed(a, b, threshold) ==
    /\ Abs(a.r - b.r) >= threshold
    /\ Abs(a.g - b.g) >= threshold
    /\ Abs(a.b - b.b) >= threshold
    /\ a.a = b.a

\* faulty variant of qoi_px_near: alpha is not compared
qoi_px_near_rgb(a, b, threshold) ==
    /\ Abs(a.r - b.r) <= threshold
    /\ Abs(a.g - b.g) <= threshold
    /\ Abs(a.b - b.b) <= threshold

\* qoi_px_near
qoi_px_near(a, b, threshold) ==
    /\ Abs(a.r - b.r) <= threshold
    /\ Abs(a.g - b.g) <= threshold
    /\ Abs(a.b - b.b) <= threshold
    /\ a.a = b.a

----------------------------------------------------------------------------
(* qoi_write_pixel, lines 54-113 *)

\* faulty variant of RunFlush: the run length is stored without the bias of one
RunFlushUnbiased(run) ==
    IF run > 0 THEN <<U8(BitOr(QOI_OP_RUN, run))>> ELSE <<>>

\* lines 67-71 and 163-166: the opcode of a pending run of `run` pixels
RunFlush(run) ==
    IF run > 0 THEN <<U8(BitOr(QOI_OP_RUN, run - 1))>> ELSE <<>>

\* faulty variant of DeltaOp: LUMA is tried before DIFF
DeltaOpLumaFirst(prev_px, px) ==
    LET dr == px.r - prev_px.r
        dg == px.g - prev_px.g
        db == px.b - prev_px.b
        da == px.a - prev_px.a
    IN  IF /\ da = 0
           /\ dg >= -32 /\ dg <= 31
           /\ (dr - dg) >= -8 /\ (dr - dg) <= 7
           /\ (db - dg) >= -8 /\ (db - dg) <= 7
        THEN <<U8(BitOr(QOI_OP_LUMA, dg + 32)),
               U8(BitOr(Shl(dr - dg + 8, 4), db - dg + 8))>>
        ELSE IF /\ da = 0
                /\ dr >= -2 /\ dr <= 1
                /\ dg >= -2 /\ dg <= 1
                /\ db >= -2 /\ db <= 1
        THEN <<U8(BitOr(BitOr(BitOr(QOI_OP_DIFF, Shl(dr + 2, 4)), Shl(dg + 2, 2)), db + 2))>>
        ELSE IF px.a = prev_px.a
        THEN <<QOI_OP_RGB, px.r, px.g, px.b>>
        ELSE <<QOI_OP_RGBA, px.r, px.g, px.b, px.a>>

\* faulty variant of DeltaOp: the DIFF deltas are biased by 3
DeltaOpDiffBias3(prev_px, px) ==
    LET dr == px.r - prev_px.r
        dg == px.g - prev_px.g
        db == px.b - prev_px.b
        da == px.a - prev_px.a
    IN  IF /\ da = 0
           /\ dr >= -2 /\ dr <= 1
           /\ dg >= -2 /\ dg <= 1
           /\ db >= -2 /\ db <= 1
        THEN <<U8(BitOr(BitOr(BitOr(QOI_OP_DIFF, Shl(dr + 3, 4)), Shl(dg + 3, 2)), db + 3))>>
        ELSE IF /\ da = 0
                /\ dg >= -32 /\ dg <= 31
                /\ (dr - dg) >= -8 /\ (dr - dg) <= 7
                /\ (db - dg) >= -8 /\ (db - dg) <= 7
        THEN <<U8(BitOr(QOI_OP_LUMA, dg + 32)),
               U8(BitOr(Shl(dr - dg + 8, 4), db - dg + 8))>>
        ELSE IF px.a = prev_px.a
        THEN <<QOI_OP_RGB, px.r, px.g, px.b>>
        ELSE <<QOI_OP_RGBA, px.r, px.g, px.b, px.a>>

\* lines 81-110: the opcode of a pixel that missed the cache
DeltaOp(prev_px, px) ==
    LET dr == px.r - prev_px.r
        dg == px.g - prev_px.g
        db == px.b - prev_px.b
        da == px.a - prev_px.a
    IN  IF /\ da = 0
           /\ dr >= -2 /\ dr <= 1
           /\ dg >= -2 /\ dg <= 1
           /\ db >= -2 /\ db <= 1
        THEN <<U8(BitOr(BitOr(BitOr(QOI_OP_DIFF, Shl(dr + 2, 4)), Shl(dg + 2, 2)), db + 2))>>
        ELSE IF /\ da = 0
                /\ dg >= -32 /\ dg <= 31
                /\ (dr - dg) >= -8 /\ (dr - dg) <= 7
                /\ (db - dg) >= -8 /\ (db - dg) <= 7
        THEN <<U8(BitOr(QOI_OP_LUMA, dg + 32)),
               U8(BitOr(Shl(dr - dg + 8, 4), db - dg + 8))>>
        ELSE IF px.a = prev_px.a
        THEN <<QOI_OP_RGB, px.r, px.g, px.b>>
        ELSE <<QOI_OP_RGBA, px.r, px.g, px.b, px.a>>

\* faulty variant of NearRun: the full run is emitted one pixel late
NearRunLate(e, px) ==
    IF e.run + 1 = RunCap + 1
    THEN [enc |-> [e EXCEPT !.run = 0], bytes |-> <<U8(BitOr(QOI_OP_RUN, 61))>>]
    ELSE [enc |-> [e EXCEPT !.run = e.run + 1], bytes |-> <<>>]

\* faulty variant of NearRun: the previous pixel follows the absorbed pixel
NearRunDrift(e, px) ==
    IF e.run + 1 = RunCap
    THEN [enc |-> [e EXCEPT !.run = 0, !.prev_px = px],
          bytes |-> <<U8(BitOr(QOI_OP_RUN, 61))>>]
    ELSE [enc |-> [e EXCEPT !.run = e.run + 1, !.prev_px = px], bytes |-> <<>>]

\* faulty variant of NearRun: the absorbed pixel is stored into the cache
NearRunStores(e, px) ==
    IF e.run + 1 = RunCap
    THEN [enc |-> [e EXCEPT !.run = 0, !.index[qoi_color_hash(px)] = px],
          bytes |-> <<U8(BitOr(QOI_OP_RUN, 61))>>]
    ELSE [enc |-> [e EXCEPT !.run = e.run + 1, !.index[qoi_color_hash(px)] = px],
          bytes |-> <<>>]

\* lines 56-65: px is near prev_px, the run grows and prev_px stays
NearRun(e, px) ==
    IF e.run + 1 = RunCap
    THEN [enc |-> [e EXCEPT !.run = 0], bytes |-> <<U8(BitOr(QOI_OP_RUN, 61))>>]
    ELSE [enc |-> [e EXCEPT !.run = e.run + 1], bytes |-> <<>>]

\* faulty variant of Standard: the cache slot is computed from the previous pixel
StandardHashPrev(e, px) ==
    LET index_pos == qoi_color_hash(e.prev_px)
        hit == e.index[index_pos] = px
        op == IF hit THEN <<U8(BitOr(QOI_OP_INDEX, index_pos))>>
                     ELSE DeltaOp(e.prev_px, px)
    IN  [enc |-> [e EXCEPT !.run = 0,
                           !.index[index_pos] = IF hit THEN @ ELSE px,
                           !.prev_px = px],
         bytes |-> RunFlush(e.run) \o op]

\* faulty variant of Standard: the pending run is written after the pixel's opcode
StandardFlushAfter(e, px) ==
    LET index_pos == qoi_color_hash(px)
        hit == e.index[index_pos] = px
        op == IF hit THEN <<U8(BitOr(QOI_OP_INDEX, index_pos))>>
                     ELSE DeltaOp(e.prev_px, px)
    IN  [enc |-> [e EXCEPT !.run = 0,
                           !.index[index_pos] = IF hit THEN @ ELSE px,
                           !.prev_px = px],
         bytes |-> op \o RunFlush(e.run)]

\* lines 67-112: px is not near prev_px
Standard(e, px) ==
    LET index_pos == qoi_color_hash(px)
        hit == e.index[index_pos] = px
        op == IF hit THEN <<U8(BitOr(QOI_OP_INDEX, index_pos))>>
                     ELSE DeltaOp(e.prev_px, px)
    IN  [enc |-> [e EXCEPT !.run = 0,
                           !.index[index_pos] = IF hit THEN @ ELSE px,
                           !.prev_px = px],
         bytes |-> RunFlush(e.run) \o op]

\* the encoder after the call and the bytes the call writes to enc->file
qoi_write_pixel(e, px) ==
    IF qoi_px_near(px, e.prev_px, e.lossiness) THEN NearRun(e, px) ELSE Standard(e, px)

----------------------------------------------------------------------------
(* qoi_write_header and qoi_write_footer *)

MagicQ == 113
MagicO == 111
MagicI == 105
MagicF == 102

\* faulty variant of qoi_write_header: width and height least significant byte first
qoi_write_header_le(w, h, ch) ==
    <<MagicQ, MagicO, MagicI, MagicF,
      U8(w), U8(Shr(w, 8)), U8(Shr(w, 16)), U8(Shr(w, 24)),
      U8(h), U8(Shr(h, 8)), U8(Shr(h, 16)), U8(Shr(h, 24)),
      U8(ch), 0>>

\* lines 116-126: the 14 header bytes
qoi_write_header(w, h, ch) ==
    <<MagicQ, MagicO, MagicI, MagicF,
      U8(Shr(w, 24)), U8(Shr(w, 16)), U8(Shr(w, 8)), U8(w),
      U8(Shr(h, 24)), U8(Shr(h, 16)), U8(Shr(h, 8)), U8(h),
      U8(ch), 0>>

\* lines 129-132: the 8 footer bytes
qoi_write_footer == <<0, 0, 0, 0, 0, 0, 0, 1>>

----------------------------------------------------------------------------
(* Inputs: the images stbi_load can deliver *)

\* pixels of the 4-channel images, as the bytes r, g, b, a of the buffer
Palette ==
    { <<0, 0, 0, 255>>, <<0, 0, 0, 0>>,
      <<10, 10, 10, 255>>, <<11, 9, 11, 255>>, <<10, 10, 10, 128>>,
      <<3, 3, 3, 255>>, <<5, 1, 1, 255>>, <<1, 5, 1, 255>> }

\* the bytes of one pixel of a ch-channel buffer
Raw(ch) == { SubSeq(p, 1, ch) : p \in Palette }

\* images longer than MaxPixels repeat their first pixel
LongDims == { <<100, 1>>, <<1, 300>> }
Dims == { <<w, 1>> : w \in 1 .. MaxPixels } \cup LongDims

\* lines 154-158: pixel k (from 0) of buffer d with ch channels; d is 1-based
PixelAt(d, k, ch) ==
    Px(d[k * ch + 1],
       d[k * ch + (IF ch > 1 THEN 1 ELSE 0) + 1],
       d[k * ch + (IF ch > 2 THEN 2 ELSE 0) + 1],
       IF ch = 4 THEN d[k * ch + 3 + 1] ELSE 255)

\* the pixels handed to qoi_write_pixel so far
Pixels == [k \in 1 .. i |-> PixelAt(data, k - 1, channels)]

----------------------------------------------------------------------------
(* The program: main calls convert_to_qoi *)

Init ==
    /\ pc = "main"
    /\ argc \in 1 .. 4
    /\ argv3 \in (IF argc > 3 THEN 1 .. MaxLossiness ELSE {0})
    /\ lossiness = 0
    /\ width = 0 /\ height = 0 /\ channels = 0
    /\ data = <<>>
    /\ i = 0
    /\ fopened = FALSE
    /\ file = <<>>
    /\ enc = Uninit
    /\ call = NoCall
    /\ stderr = <<>>
    /\ stdout = <<>>
    /\ status = -1

\* lines 174-178: too few arguments print the usage and return 1
Main ==
    /\ pc = "main"
    /\ IF argc < 3
       THEN /\ stdout' = Append(stdout, "Usage")
            /\ status' = 1
            /\ pc' = "exit"
            /\ UNCHANGED lossiness
       ELSE /\ lossiness' = (IF argc > 3 THEN argv3 ELSE 0)
            /\ pc' = "load"
            /\ UNCHANGED <<stdout, status>>
    /\ UNCHANGED <<argc, argv3, width, height, channels, data, i, fopened, file,
                   enc, call, stderr>>

\* faulty variant of LoadFail: the failure is reported but the function goes on
LoadFailNoReturn ==
    /\ pc = "load"
    /\ stderr' = Append(stderr, "Error loading image")
    /\ pc' = "fopen"
    /\ UNCHANGED <<argc, argv3, lossiness, width, height, channels, data, i,
                   fopened, file, enc, call, stdout, status>>

\* lines 136-140, the input cannot be loaded: report and return
LoadFail ==
    /\ pc = "load"
    /\ stderr' = Append(stderr, "Error loading image")
    /\ pc' = "return"
    /\ UNCHANGED <<argc, argv3, lossiness, width, height, channels, data, i,
                   fopened, file, enc, call, stdout, status>>

\* line 136, stbi_load succeeds: width, height and the file's channel count
LoadOk ==
    /\ pc = "load"
    /\ \E d \in Dims, ch \in 1 .. 4 :
          /\ width' = d[1]
          /\ height' = d[2]
          /\ channels' = ch
    /\ pc' = "fopen"
    /\ UNCHANGED <<argc, argv3, lossiness, data, i, fopened, file, enc, call,
                   stderr, stdout, status>>

\* lines 142-147, fopen fails: report and return
FopenFail ==
    /\ pc = "fopen"
    /\ stderr' = Append(stderr, "Error opening output file")
    /\ pc' = "return"
    /\ UNCHANGED <<argc, argv3, lossiness, width, height, channels, data, i,
                   fopened, file, enc, call, stdout, status>>

\* line 142, fopen(output_path, "wb") creates the empty output file
FopenOk ==
    /\ pc = "fopen"
    /\ fopened' = TRUE
    /\ file' = <<>>
    /\ pc' = "init"
    /\ UNCHANGED <<argc, argv3, lossiness, width, height, channels, data, i,
                   enc, call, stderr, stdout, status>>

\* lines 149-150
EncoderInit ==
    /\ pc = "init"
    /\ enc' = qoi_encoder_init(lossiness)
    /\ pc' = "header"
    /\ UNCHANGED <<argc, argv3, lossiness, width, height, channels, data, i,
                   fopened, file, call, stderr, stdout, status>>

\* line 151
WriteHeader ==
    /\ pc = "header"
    /\ file' = file \o qoi_write_header(width, height, channels)
    /\ i' = 0
    /\ pc' = "pixels"
    /\ UNCHANGED <<argc, argv3, lossiness, width, height, channels, data,
                   fopened, enc, call, stderr, stdout, status>>

\* lines 153-160, one iteration: read pixel i of the buffer and encode it
WritePixel ==
    /\ pc = "pixels"
    /\ i < width * height
    /\ \E raw \in Raw(channels) :
          /\ (width * height > MaxPixels /\ i > 0) => raw = SubSeq(data, 1, channels)
          /\ data' = data \o raw
          /\ LET px == PixelAt(data', i, channels)
                 res == qoi_write_pixel(enc, px)
             IN  /\ enc' = res.enc
                 /\ file' = file \o res.bytes
                 /\ call' = [enc |-> enc, px |-> px, bytes |-> res.bytes]
    /\ i' = i + 1
    /\ UNCHANGED <<pc, argc, argv3, lossiness, width, height, channels,
                   fopened, stderr, stdout, status>>

\* lines 162-166, after the loop: flush the final run if needed
FlushRun ==
    /\ pc = "pixels"
    /\ ~(i < width * height)
    /\ file' = file \o RunFlush(enc.run)
    /\ pc' = "footer"
    /\ UNCHANGED <<argc, argv3, lossiness, width, height, channels, data, i,
                   fopened, enc, call, stderr, stdout, status>>

\* lines 168-171: footer, fclose, and convert_to_qoi returns
WriteFooter ==
    /\ pc = "footer"
    /\ file' = file \o qoi_write_footer
    /\ pc' = "return"
    /\ UNCHANGED <<argc, argv3, lossiness, width, height, channels, data, i,
                   fopened, enc, call, stderr, stdout, status>>

\* lines 179-180: convert_to_qoi has returned (void), main returns 0
Return ==
    /\ pc = "return"
    /\ status' = 0
    /\ pc' = "exit"
    /\ UNCHANGED <<argc, argv3, lossiness, width, height, channels, data, i,
                   fopened, file, enc, call, stderr, stdout>>

Next ==
    \/ Main
    \/ LoadFail
    \/ LoadOk
    \/ FopenFail
    \/ FopenOk
    \/ EncoderInit
    \/ WriteHeader
    \/ WritePixel
    \/ FlushRun
    \/ WriteFooter
    \/ Return

Spec == Init /\ [][Next]_vars

----------------------------------------------------------------------------
(* The opcode forms on a denser set of pixels.  OpsSpec starts in the      *)
(* middle of the pixel loop of a 3 x 1 four-channel image, after its first *)
(* two pixels (one of OpsCached, then one of OpsBases) have been encoded,  *)
(* and encodes a third pixel whose channels differ from the second's by    *)
(* the deltas around the limits of the DIFF and LUMA forms.                *)

OpsBases ==
    { <<0, 0, 0, 255>>, <<128, 128, 128, 255>>, <<255, 255, 255, 255>>,
      <<40, 200, 7, 3>> }

OpsDeltas == {-33, -32, -9, -8, -3, -2, -1, 0, 1, 2, 7, 8, 31, 32}

\* the first pixel of the image, given its second pixel p
OpsCached(p) ==
    { q \in { <<p[1] + 1, p[2], p[3], p[4]>>,
              <<p[1] - 2, p[2] + 1, p[3] - 1, p[4]>>,
              <<p[1] + 7, p[2], p[3] - 8, p[4]>>,
              <<p[1], p[2], p[3], 255 - p[4]>> } :
        \A k \in 1 .. 4 : q[k] >= 0 /\ q[k] <= 255 }

\* the third pixel of the image, given its second pixel p
OpsThird(p) ==
    { q \in { <<p[1] + dr, p[2] + dg, p[3] + db, a>> :
                dr \in OpsDeltas, dg \in OpsDeltas, db \in OpsDeltas,
                a \in {p[4], 255 - p[4]} } :
        \A k \in 1 .. 3 : q[k] >= 0 /\ q[k] <= 255 }

\* the pixel loop after its first two iterations
OpsInit ==
    /\ pc = "pixels"
    /\ lossiness \in 0 .. 1
    /\ argc = (IF lossiness > 0 THEN 4 ELSE 3)
    /\ argv3 = lossiness
    /\ width = 3 /\ height = 1 /\ channels = 4
    /\ \E p \in OpsBases : \E c \in OpsCached(p) :
          LET first == qoi_write_pixel(qoi_encoder_init(lossiness), PixelAt(c, 0, 4))
              second == qoi_write_pixel(first.enc, PixelAt(p, 0, 4))
          IN  /\ data = c \o p
              /\ enc = second.enc
              /\ file = qoi_write_header(3, 1, 4) \o first.bytes \o second.bytes
              /\ call = [enc |-> first.enc, px |-> PixelAt(p, 0, 4),
                         bytes |-> second.bytes]
    /\ i = 2
    /\ fopened = TRUE
    /\ stderr = <<>>
    /\ stdout = <<>>
    /\ status = -1

\* lines 153-160, the third iteration
OpsWritePixel ==
    /\ pc = "pixels"
    /\ i < width * height
    /\ \E raw \in OpsThird(SubSeq(data, 5, 8)) :
          /\ data' = data \o raw
          /\ LET px == PixelAt(data', i, channels)
                 res == qoi_write_pixel(enc, px)
             IN  /\ enc' = res.enc
                 /\ file' = file \o res.bytes
                 /\ call' = [enc |-> enc, px |-> px, bytes |-> res.bytes]
    /\ i' = i + 1
    /\ UNCHANGED <<pc, argc, argv3, lossiness, width, height, channels,
                   fopened, stderr, stdout, status>>

OpsNext == OpsWritePixel

OpsSpec == OpsInit /\ [][OpsNext]_vars

----------------------------------------------------------------------------
(* What a reader of the output file sees.  The reference QOI decoder is    *)
(* not part of lossyqoi.c; it is the decoder the round-trip property is    *)
(* stated against: previous pixel (0,0,0,255), a 64-slot cache of zero     *)
(* pixels, the slot of every decoded pixel set to it, deltas added modulo  *)
(* 256, and a RUN of stored value v repeating the previous pixel v + 1     *)
(* times.                                                                  *)

HeaderLen == 14
FooterLen == 8

\* the conversion ran to its end: header, opcodes and footer are in the file
Converted == fopened /\ pc \in {"return", "exit"}

\* the bytes between the header and the footer
Body == SubSeq(file, HeaderLen + 1, Len(file) - FooterLen)

IsRunByte(b) == b >= 192 /\ b < 254

OpLen(b) ==
    IF b = 254 THEN 4
    ELSE IF b = 255 THEN 5
    ELSE IF b \div 64 = 2 THEN 2
    ELSE 1

RECURSIVE Opcodes(_)
\* the byte stream split into opcodes by their tags
Opcodes(bs) ==
    IF bs = <<>> THEN <<>>
    ELSE LET n == IF OpLen(bs[1]) <= Len(bs) THEN OpLen(bs[1]) ELSE Len(bs)
         IN  <<SubSeq(bs, 1, n)>> \o Opcodes(SubSeq(bs, n + 1, Len(bs)))

ByteAt(op, k) == IF k <= Len(op) THEN op[k] ELSE 0

RefHash(px) == (px.r * 3 + px.g * 5 + px.b * 7 + px.a * 11) % 64

\* the pixel an opcode stands for, given the decoder's previous pixel and cache
RefPixel(op, prev, idx) ==
    LET b == op[1]
    IN  IF b = 254 THEN Px(ByteAt(op, 2), ByteAt(op, 3), ByteAt(op, 4), prev.a)
        ELSE IF b = 255 THEN Px(ByteAt(op, 2), ByteAt(op, 3), ByteAt(op, 4), ByteAt(op, 5))
        ELSE IF b \div 64 = 0 THEN idx[b % 64]
        ELSE IF b \div 64 = 1
        THEN Px((prev.r + ((b \div 16) % 4) - 2) % 256,
                (prev.g + ((b \div 4) % 4) - 2) % 256,
                (prev.b + (b % 4) - 2) % 256,
                prev.a)
        ELSE IF b \div 64 = 2
        THEN LET dg == (b % 64) - 32
                 b2 == ByteAt(op, 2)
             IN  Px((prev.r + dg - 8 + (b2 \div 16)) % 256,
                    (prev.g + dg) % 256,
                    (prev.b + dg - 8 + (b2 % 16)) % 256,
                    prev.a)
        ELSE prev

RECURSIVE RefDecodeOps(_, _, _)
RefDecodeOps(ops, prev, idx) ==
    IF ops = <<>> THEN <<>>
    ELSE LET op == Head(ops)
             px == RefPixel(op, prev, idx)
             n == IF IsRunByte(op[1]) THEN (op[1] % 64) + 1 ELSE 1
         IN  [k \in 1 .. n |-> px]
                \o RefDecodeOps(Tail(ops), px, [idx EXCEPT ![RefHash(px)] = px])

\* the pixels the reference decoder reads from an opcode stream
RefDecode(bs) ==
    RefDecodeOps(Opcodes(bs), Px(0, 0, 0, 255), [k \in 0 .. 63 |-> Px(0, 0, 0, 0)])

----------------------------------------------------------------------------
(* Properties *)

\* C1: lossless round-trip.  When a conversion with threshold 0 has run to
\* its end, the reference decoder applied to the opcode stream between header
\* and footer yields exactly the pixels that were handed to qoi_write_pixel.
C1_RoundTrip ==
    (Converted /\ lossiness = 0) => RefDecode(Body) = Pixels

\* a lossless conversion of a full-length free image whose last pixel ended a
\* pending run and hit the cache (RUN then INDEX), decoded back to its pixels
C1_Witness ==
    /\ Converted /\ lossiness = 0 /\ i = MaxPixels
    /\ call.enc.run > 0
    /\ Len(call.bytes) = 2 /\ call.bytes[2] < 64
    /\ RefDecode(Body) = Pixels

RECURSIVE AbsorbedFrom(_, _, _)
\* how many of the pixels pxs[k], pxs[k+1], ... take the near-run branch of
\* qoi_write_pixel when encoded in order starting from encoder e
AbsorbedFrom(pxs, k, e) ==
    IF k > Len(pxs) THEN 0
    ELSE (IF qoi_px_near(pxs[k], e.prev_px, e.lossiness) THEN 1 ELSE 0)
            + AbsorbedFrom(pxs, k + 1, qoi_write_pixel(e, pxs[k]).enc)

\* pixels of pxs absorbed into runs when pxs is encoded with threshold t
Absorbed(pxs, t) == AbsorbedFrom(pxs, 1, qoi_encoder_init(t))

\* the pixel loop of an image of at most 100 pixels has just ended
LoopDone == pc = "footer" /\ i <= 100

\* C2 as stated: for the pixel sequence of every image and every pair of
\* thresholds t1 <= t2, at least as many pixels are absorbed into runs with
\* t2 as with t1.
C2_MonotoneAllPairs ==
    LoopDone =>
        \A t1 \in 0 .. MaxLossiness, t2 \in 0 .. MaxLossiness :
            t1 <= t2 => Absorbed(Pixels, t1) <= Absorbed(Pixels, t2)

\* C2 as amended: for the pixel sequence of every image and every threshold
\* t >= 0, at least as many pixels are absorbed into runs with t as with the
\* lossless threshold 0.
C2_MonotoneFromLossless ==
    LoopDone =>
        \A t \in 0 .. MaxLossiness : Absorbed(Pixels, 0) <= Absorbed(Pixels, t)

\* an image encoded with a positive threshold that absorbed more pixels than
\* the lossless encoding of the same pixels would
C2_Witness ==
    /\ LoopDone /\ lossiness > 0 /\ i = MaxPixels
    /\ Absorbed(Pixels, 0) > 0
    /\ Absorbed(Pixels, 0) < Absorbed(Pixels, lossiness)

(* The words of the properties below, written out independently of the     *)
(* encoder's operators.                                                    *)

\* px is near prev: colour channels within t, alpha equal
IsNear(px, prev, t) ==
    /\ px.r - prev.r <= t /\ prev.r - px.r <= t
    /\ px.g - prev.g <= t /\ prev.g - px.g <= t
    /\ px.b - prev.b <= t /\ prev.b - px.b <= t
    /\ px.a = prev.a

\* the RUN opcode of a pending run of n pixels, nothing when none is pending
PendingRun(n) == IF n > 0 THEN <<192 + (n - 1)>> ELSE <<>>

\* a call of qoi_write_pixel has been made
Called == i > 0 /\ call # NoCall

\* the cache slot of the call's pixel held that pixel when the call began
CallHit == call.enc.index[RefHash(call.px)] = call.px

\* the call's pixel passed the near test against the previous-pixel state
CallNear == IsNear(call.px, call.enc.prev_px, call.enc.lossiness)

\* the call wrote the INDEX opcode of its pixel's slot, after the opcode of
\* the run that was pending, and nothing else
CallWroteIndex == call.bytes = PendingRun(call.enc.run) \o <<RefHash(call.px)>>

\* C3 as stated: whenever the cache slot hash(px) holds px when
\* qoi_write_pixel(px) is called, the call emits the INDEX opcode naming
\* that slot and no other form.
C3_HitEmitsIndex ==
    (Called /\ CallHit) => CallWroteIndex

\* C3 as amended: whenever the cache slot hash(px) holds px when
\* qoi_write_pixel(px) is called and px fails the near test, the call emits
\* (after the RUN opcode of a pending run) the INDEX opcode naming that slot
\* and no other form.
C3_HitNotNearEmitsIndex ==
    (Called /\ CallHit /\ ~CallNear) => CallWroteIndex

\* a call whose pixel was cached and not near, and which wrote INDEX
C3_Witness ==
    /\ Called /\ CallHit /\ ~CallNear /\ CallWroteIndex
    /\ call.px.a = 255

\* the latest pixel has the colour of the input pixel before it and another alpha
AlphaOnlyChange ==
    /\ Called /\ i >= 2
    /\ Pixels[i].r = Pixels[i - 1].r
    /\ Pixels[i].g = Pixels[i - 1].g
    /\ Pixels[i].b = Pixels[i - 1].b
    /\ Pixels[i].a # Pixels[i - 1].a

CallWroteRGBA ==
    call.bytes = PendingRun(call.enc.run)
                    \o <<255, call.px.r, call.px.g, call.px.b, call.px.a>>

\* C4 as stated: an input pixel with the r, g, b of the pixel before it and a
\* different alpha is not absorbed into a run and is written as an RGBA
\* opcode (so neither as DIFF nor as LUMA).
C4_AlphaChangeIsRGBA ==
    AlphaOnlyChange => (enc.run = 0 /\ CallWroteRGBA)

\* C4 as amended: an input pixel with the r, g, b of the pixel before it and
\* a different alpha is not absorbed into a run, and is written as an RGBA
\* opcode unless its cache slot already holds it, when it is written as INDEX
\* (so never as DIFF, LUMA or RGB).
C4_AlphaChangeIsRGBAOrIndex ==
    AlphaOnlyChange =>
        /\ enc.run = 0 /\ enc.prev_px = call.px
        /\ IF CallHit THEN CallWroteIndex ELSE CallWroteRGBA

\* an alpha-only change written as RGBA under a positive threshold
C4_Witness ==
    /\ AlphaOnlyChange /\ lossiness > 0
    /\ ~CallHit /\ CallWroteRGBA

IsRunOp(op) == IsRunByte(op[1])

\* the RUN opcodes of the output, in order
RunOps == SelectSeq(Opcodes(Body), IsRunOp)

\* a finished conversion of 100 pixels that all equal the first
HundredSame ==
    /\ Converted /\ i = 100
    /\ \A k \in 1 .. i : Pixels[k] = Pixels[1]

\* the first pixel is near the encoder's initial previous pixel (0,0,0,255)
FirstNearInitial == IsNear(Pixels[1], Px(0, 0, 0, 255), lossiness)

\* C5 as stated: 100 pixels identical to the first, with any pixel value and
\* any threshold, produce exactly two RUN opcodes, of lengths 62 and 38
\* (stored values 61 and 37).
C5_RunsOf62And38 ==
    HundredSame => RunOps = << <<192 + 61>>, <<192 + 37>> >>

\* C5 as amended: 100 pixels identical to the first produce exactly two RUN
\* opcodes, none longer than 62 pixels: of lengths 62 and 38 when the first
\* pixel is near the initial previous pixel (0,0,0,255), and otherwise one
\* non-run opcode for the first pixel followed by runs of lengths 62 and 37.
C5_RunsOf62AndRest ==
    HundredSame =>
        IF FirstNearInitial
        THEN Opcodes(Body) = << <<192 + 61>>, <<192 + 37>> >>
        ELSE /\ Len(Opcodes(Body)) = 3
             /\ ~IsRunOp(Opcodes(Body)[1])
             /\ RunOps = << <<192 + 61>>, <<192 + 36>> >>

\* 100 equal pixels away from the initial previous pixel, under a positive
\* threshold: the first pixel's own opcode, then runs of 62 and 37
C5_Witness ==
    /\ HundredSame /\ lossiness > 0 /\ ~FirstNearInitial
    /\ RunOps = << <<192 + 61>>, <<192 + 36>> >>

\* n as a big-endian uint32
BigEndian32(n) ==
    <<(n \div 16777216) % 256, (n \div 65536) % 256, (n \div 256) % 256, n % 256>>

\* C6: framing.  The file of every finished conversion starts with "qoif",
\* width and height as big-endian uint32, the channel count and 0, and ends
\* with 00 00 00 00 00 00 00 01; between them lies the whole opcode stream,
\* one pixel per input pixel, the opcode of a run pending at the end included.
C6_Framing ==
    Converted =>
        /\ Len(file) >= HeaderLen + FooterLen
        /\ SubSeq(file, 1, 14) =
              <<113, 111, 105, 102>> \o BigEndian32(width) \o BigEndian32(height)
                 \o <<channels, 0>>
        /\ SubSeq(file, Len(file) - 7, Len(file)) = <<0, 0, 0, 0, 0, 0, 0, 1>>
        /\ Len(RefDecode(Body)) = width * height
        /\ enc.run > 0 => (Body # <<>> /\ Body[Len(Body)] = 192 + (enc.run - 1))

\* a finished conversion of the 1 x 300 image with a run pending at the end
C6_Witness ==
    /\ Converted /\ height = 300 /\ enc.run > 0
    /\ SubSeq(file, 9, 12) = <<0, 0, 1, 44>>
    /\ Body[Len(Body)] = 192 + (enc.run - 1)

\* the program reported a failure
Failed == stderr # <<>>

\* C7: exit status.  main returns non-zero when the input cannot be loaded,
\* when the output cannot be opened and when arguments are missing, and zero
\* only when the conversion succeeded.
C7_ExitStatus ==
    pc = "exit" =>
        /\ (Failed \/ argc < 3) => status # 0
        /\ status = 0 => (Converted /\ ~Failed)

\* C8: no output on failure.  When the input cannot be loaded or the output
\* cannot be opened, the output file is not created, no byte is written and
\* the encoder is never initialized.
C8_NoOutputOnFailure ==
    Failed => (~fopened /\ file = <<>> /\ enc = Uninit /\ ~Called)

\* the input loaded, the output could not be opened, and main has returned
C8_Witness ==
    /\ pc = "exit" /\ width > 0
    /\ stderr = <<"Error opening output file">>
    /\ ~fopened /\ file = <<>> /\ enc = Uninit

\* C9: header channel count.  Whatever channel count (1 to 4) the loader
\* reports, the header's channel byte is 3 or 4 and its colour-space byte 0.
C9_HeaderChannels ==
    Len(file) >= HeaderLen => (file[13] \in {3, 4} /\ file[14] = 0)

\* the 2 x 1 colour image (10,10,10,255), (11,9,11,255) converted with threshold 0
Scenario ==
    /\ Converted /\ lossiness = 0 /\ width = 2 /\ height = 1
    /\ channels \in {3, 4}
    /\ Pixels = <<Px(10, 10, 10, 255), Px(11, 9, 11, 255)>>

\* C10 as stated: in the scenario the body is the first pixel in RGB form
\* (0xFE and its three colour bytes) followed by one DIFF byte.
C10_RGBThenDIFF ==
    Scenario =>
        /\ Len(Body) = 5
        /\ SubSeq(Body, 1, 4) = <<254, 10, 10, 10>>
        /\ Body[5] \in 64 .. 127

\* C10 as amended: in the scenario the body is the first pixel in LUMA form
\* (0xAA 0x88: green delta 10, red and blue equal to it) followed by the one
\* DIFF byte 0x77 (deltas 1, -1, 1).
C10_LUMAThenDIFF ==
    Scenario => Body = <<170, 136, 119>>

\* the scenario as a 4-channel image: 14 + 3 + 8 bytes
C10_Witness ==
    /\ Scenario /\ channels = 4 /\ Len(file) = 25
    /\ Body = <<170, 136, 119>>


\* C11: run anchor.  After every call of qoi_write_pixel(px) the previous
\* pixel is px when px failed the near test, and is unchanged (still the
\* pixel the run is measured against) when px passed it.
C11_RunAnchor ==
    Called =>
        IF CallNear THEN enc.prev_px = call.enc.prev_px
                    ELSE enc.prev_px = call.px

\* a pixel that differs from the previous pixel was absorbed into a run that
\* was already pending, and the previous pixel stayed
C11_Witness ==
    /\ Called /\ CallNear
    /\ call.enc.run > 0
    /\ call.px # call.enc.prev_px
    /\ enc.prev_px = call.enc.prev_px

\* the encoder has been initialized
Initialized == enc # Uninit

\* the conversion is past its end-of-stream flush
Flushed == fopened /\ pc \in {"footer", "return", "exit"}

\* the bytes written after the header, the footer excluded
Stream ==
    IF Converted THEN Body ELSE SubSeq(file, HeaderLen + 1, Len(file))

\* C12: run counter bound.  After init and after every call of
\* qoi_write_pixel the pending run count is between 0 and 61, and every RUN
\* opcode written (when the run is full, when a pixel ends the run, at the
\* end of the stream) is a byte in 0xC0..0xFD, its stored value between 0
\* and 61.
C12_RunBound ==
    /\ Initialized => (enc.run >= 0 /\ enc.run <= 61)
    /\ (Called /\ CallNear) => (call.bytes = <<>> \/ call.bytes = <<192 + 61>>)
    /\ (Called /\ ~CallNear /\ call.enc.run > 0) =>
          /\ call.bytes[1] = 192 + (call.enc.run - 1)
          /\ call.bytes[1] >= 192 /\ call.bytes[1] <= 253
    /\ (Flushed /\ enc.run > 0) =>
          /\ Stream[Len(Stream)] = 192 + (enc.run - 1)
          /\ Stream[Len(Stream)] >= 192 /\ Stream[Len(Stream)] <= 253

\* the call that filled a run of 62 pixels and wrote its opcode 0xFD
C12_Witness ==
    /\ Called /\ CallNear
    /\ call.enc.run = 61 /\ enc.run = 0
    /\ call.bytes = <<253>>


\* what the call wrote after the opcode of the run that was pending
CallRest ==
    SubSeq(call.bytes, Len(PendingRun(call.enc.run)) + 1, Len(call.bytes))

\* the call wrote, after the opcode of the pending run, exactly one opcode,
\* and that opcode is not a RUN
CallWroteOneNonRun ==
    /\ Len(call.bytes) > Len(PendingRun(call.enc.run))
    /\ SubSeq(call.bytes, 1, Len(PendingRun(call.enc.run))) = PendingRun(call.enc.run)
    /\ ~IsRunByte(CallRest[1])
    /\ Len(CallRest) = OpLen(CallRest[1])

\* C13: idle-only emission.  qoi_write_pixel writes a non-run opcode only for
\* a pixel that fails the near test; the RUN opcode of a run pending when
\* that pixel arrives (stored value count - 1) comes immediately before the
\* pixel's opcode and the counter is 0 afterwards.  The output grows in pixel
\* order: the call's bytes are the end of the file, and the stream written so
\* far holds exactly the pixels that are not waiting in the pending run.
C13_IdleEmission ==
    /\ (Called /\ ~CallNear) => (CallWroteOneNonRun /\ enc.run = 0)
    /\ (Called /\ CallNear) => (call.bytes = <<>> \/ call.bytes = <<192 + 61>>)
    /\ (Called /\ fopened) =>
          /\ Len(Stream) >= Len(call.bytes)
          /\ ~Flushed =>
                SubSeq(Stream, Len(Stream) - Len(call.bytes) + 1, Len(Stream)) = call.bytes
          /\ Len(RefDecode(Stream)) = i - (IF Flushed THEN 0 ELSE enc.run)

\* a pixel that ended a pending run and needed a literal opcode: the RUN
\* opcode first, then the four bytes of the RGB opcode
C13_Witness ==
    /\ Called /\ ~CallNear /\ call.enc.run > 0
    /\ Len(call.bytes) = 5
    /\ call.bytes[1] = 192 + (call.enc.run - 1)
    /\ call.bytes[2] = 254
    /\ enc.run = 0


\* the channel differences of the call's pixel from the previous pixel
CallDr == call.px.r - call.enc.prev_px.r
CallDg == call.px.g - call.enc.prev_px.g
CallDb == call.px.b - call.enc.prev_px.b
CallDa == call.px.a - call.enc.prev_px.a

\* the DIFF form applies: alpha unchanged, every colour delta in [-2, 1]
DiffApplies ==
    /\ CallDa = 0
    /\ CallDr \in -2 .. 1 /\ CallDg \in -2 .. 1 /\ CallDb \in -2 .. 1

\* the LUMA form applies: alpha unchanged, dg in [-32, 31], dr-dg and db-dg in [-8, 7]
LumaApplies ==
    /\ CallDa = 0
    /\ CallDg \in -32 .. 31
    /\ (CallDr - CallDg) \in -8 .. 7
    /\ (CallDb - CallDg) \in -8 .. 7

\* the form an opcode's first byte announces
FormOf(b) ==
    IF b = 255 THEN "RGBA"
    ELSE IF b = 254 THEN "RGB"
    ELSE IF b >= 192 THEN "RUN"
    ELSE IF b >= 128 THEN "LUMA"
    ELSE IF b >= 64 THEN "DIFF"
    ELSE "INDEX"

\* the call's pixel failed the near test and missed the cache
CallMiss == Called /\ ~CallNear /\ ~CallHit

\* C14: opcode form selection.  A pixel that fails the near test and misses
\* the cache is written as DIFF iff the DIFF form applies, otherwise as LUMA
\* iff the LUMA form applies, otherwise as RGB (0xFE r g b) iff alpha is
\* unchanged, otherwise as RGBA (0xFF r g b a).
C14_FormSelection ==
    CallMiss =>
        /\ CallWroteOneNonRun
        /\ FormOf(CallRest[1]) =
              (IF DiffApplies THEN "DIFF"
               ELSE IF LumaApplies THEN "LUMA"
               ELSE IF CallDa = 0 THEN "RGB"
               ELSE "RGBA")
        /\ FormOf(CallRest[1]) = "RGB" =>
              CallRest = <<254, call.px.r, call.px.g, call.px.b>>
        /\ FormOf(CallRest[1]) = "RGBA" =>
              CallRest = <<255, call.px.r, call.px.g, call.px.b, call.px.a>>

\* a pixel just outside the LUMA form (dr - dg = 8, alpha unchanged) written as RGB
C14_Witness ==
    /\ CallMiss /\ i = 3
    /\ CallDa = 0 /\ CallDg = 0 /\ CallDr = 8 /\ CallDb = 0
    /\ CallRest = <<254, call.px.r, call.px.g, call.px.b>>

\* C15: tag integrity.  The first byte of every INDEX, DIFF and LUMA opcode
\* carries its tag and its payload unmixed: INDEX is the slot
\* (r*3 + g*5 + b*7 + a*11) mod 64 in 0x00..0x3F; DIFF is in 0x40..0x7F with
\* the 2-bit fields dr+2, dg+2, db+2; LUMA is in 0x80..0xBF with the low six
\* bits dg+32, followed by the byte of the nibbles dr-dg+8 and db-dg+8.
C15_TagIntegrity ==
    (Called /\ ~CallNear) =>
        /\ CallWroteOneNonRun
        /\ CallHit =>
              /\ CallRest[1] >= 0 /\ CallRest[1] <= 63
              /\ CallRest[1] % 64 = RefHash(call.px)
        /\ (~CallHit /\ DiffApplies) =>
              /\ CallRest[1] >= 64 /\ CallRest[1] <= 127
              /\ (CallRest[1] \div 16) % 4 = CallDr + 2
              /\ (CallRest[1] \div 4) % 4 = CallDg + 2
              /\ CallRest[1] % 4 = CallDb + 2
        /\ (~CallHit /\ ~DiffApplies /\ LumaApplies) =>
              /\ CallRest[1] >= 128 /\ CallRest[1] <= 191
              /\ CallRest[1] % 64 = CallDg + 32
              /\ Len(CallRest) = 2
              /\ CallRest[2] \div 16 = CallDr - CallDg + 8
              /\ CallRest[2] % 16 = CallDb - CallDg + 8
              /\ CallRest[2] <= 255

\* a LUMA opcode with both nibbles at their limits: dg = 0, dr = 7, db = -8
C15_Witness ==
    /\ CallMiss /\ i = 3
    /\ CallDa = 0 /\ CallDg = 0 /\ CallDr = 7 /\ CallDb = -8
    /\ CallRest = <<160, 240>>


\* the pixel every slot holds after init
ZeroPixel == [r |-> 0, g |-> 0, b |-> 0, a |-> 0]

\* the encoder exists and has consumed at most 100 pixels
Encoding == Initialized /\ i <= 100

\* the positions in S of the input pixels whose hash is slot s
HashedTo(S, s) == { k \in S : RefHash(Pixels[k]) = s }

\* the largest position of a non-empty set of positions
Latest(S) == CHOOSE k \in S : \A j \in S : j <= k

\* the positions, from k on, of the consumed pixels that fail the near test,
\* anchor being the pixel runs are measured against when pixel k arrives:
\* a pixel that fails the test becomes the anchor, an absorbed one does not
RECURSIVE KeptFrom(_, _)
KeptFrom(k, anchor) ==
    IF k > i THEN {}
    ELSE IF IsNear(Pixels[k], anchor, lossiness)
         THEN KeptFrom(k + 1, anchor)
         ELSE {k} \cup KeptFrom(k + 1, Pixels[k])

\* the positions of the consumed pixels that failed the near test
Kept == KeptFrom(1, [r |-> 0, g |-> 0, b |-> 0, a |-> 255])

\* C16 as stated: every cache slot holds the zero pixel if no input pixel so
\* far hashed to it, otherwise the most recent input pixel whose hash it is.
C16_SlotHoldsLastHashed ==
    Encoding =>
        \A s \in 0 .. 63 :
            LET hashed == HashedTo(1 .. i, s)
            IN  enc.index[s] = IF hashed = {} THEN ZeroPixel
                               ELSE Pixels[Latest(hashed)]

\* C16 as amended: every cache slot holds the zero pixel if no input pixel
\* that failed the near test hashed to it so far, otherwise the most recent
\* input pixel that failed the near test and whose hash it is; pixels
\* absorbed into a run are never stored.
C16_SlotHoldsLastKept ==
    Encoding =>
        LET kept == Kept
            slots == { RefHash(Pixels[k]) : k \in kept }
        IN  /\ \A s \in (0 .. 63) \ slots : enc.index[s] = ZeroPixel
            /\ \A s \in slots : enc.index[s] = Pixels[Latest(HashedTo(kept, s))]

\* three pixels consumed: an absorbed one left its slot zero, a later one
\* that failed the near test sits in its slot
C16_Witness ==
    /\ Encoding /\ i = 3
    /\ \E k \in 1 .. 3 :
          /\ k \notin Kept
          /\ enc.index[RefHash(Pixels[k])] = ZeroPixel
    /\ \E k \in 1 .. 3 :
          /\ k \in Kept
          /\ enc.index[RefHash(Pixels[k])] = Pixels[k]


\* the slots a call changed
CallChanged == { s \in 0 .. 63 : enc.index[s] # call.enc.index[s] }

\* C17: cache frame condition.  qoi_write_pixel(px) changes at most the slot
\* (r*3 + g*5 + b*7 + a*11) mod 64 of px, and only when px failed the near
\* test and missed the cache, setting the slot to px; on a hit and on a
\* near-run continuation the whole cache is unchanged; the lossiness
\* threshold is the one given at init in every state.
C17_CacheFrame ==
    /\ Initialized => enc.lossiness = lossiness
    /\ Called =>
          /\ call.enc.lossiness = lossiness
          /\ CallChanged \subseteq {RefHash(call.px)}
          /\ CallChanged # {} => (~CallNear /\ ~CallHit)
          /\ (CallNear \/ CallHit) => enc.index = call.enc.index
          /\ CallMiss => enc.index[RefHash(call.px)] = call.px

\* a miss that overwrote the pixel an earlier call had stored in the slot
C17_Witness ==
    /\ CallMiss
    /\ call.enc.index[RefHash(call.px)] # ZeroPixel
    /\ CallChanged = {RefHash(call.px)}
    /\ enc.index[RefHash(call.px)] = call.px


\* C18: repeated finalize is a no-op.  Once the end-of-stream flush of lines
\* 163-166 has run, the pending run count is 0, so running that flush again
\* would write no opcode.
C18_FlushZeroesRun ==
    Flushed => (enc.run = 0 /\ PendingRun(enc.run) = <<>>)


\* C19: bounded lossy error.  For every image and threshold, the reference
\* decoder applied to the opcode stream of the finished file yields as many
\* pixels as the input has, and each decoded pixel has the alpha of the
\* input pixel at its position and r, g, b within the threshold of it.
C19_BoundedError ==
    Converted =>
        LET decoded == RefDecode(Body)
        IN  /\ Len(decoded) = i
            /\ \A k \in 1 .. i :
                  /\ decoded[k].a = Pixels[k].a
                  /\ decoded[k].r - Pixels[k].r \in -lossiness .. lossiness
                  /\ decoded[k].g - Pixels[k].g \in -lossiness .. lossiness
                  /\ decoded[k].b - Pixels[k].b \in -lossiness .. lossiness

\* a finished file of a lossy conversion in which a pixel decodes to a
\* colour that is not its input colour, a full threshold away in red
C19_Witness ==
    /\ Converted /\ i = MaxPixels /\ lossiness > 0
    /\ \E k \in 1 .. i :
          /\ RefDecode(Body)[k] # Pixels[k]
          /\ RefDecode(Body)[k].r - Pixels[k].r \in {-lossiness, lossiness}

====
